---- MODULE Spec2Model ----
(***************************************************************************)
(* posixread: read exactly N bytes from the file descriptor of a paused    *)
(* net.Socket.  The model follows the asynchronous addon                   *)
(* (src/unnamed/part_003): Read() validates its arguments on the main      *)
(* thread and queues a PosixReadWorker; the worker's Execute() runs on a   *)
(* thread of the pool (malloc, SetBlocking, the read(2) loop,              *)
(* UnsetBlocking); HandleOKCallback / HandleErrorCallback run back on the  *)
(* main loop.  The environment is the kernel side of each descriptor (the  *)
(* receive queue, the status flags, the peer that writes and closes) and   *)
(* the outcome of every system call.                                       *)
(***************************************************************************)
EXTENDS Integers, Sequences, FiniteSets, TLC

VARIABLES
    args,                 \* args[r]: the JavaScript arguments of call r
    pc,                   \* pc[r]: where call r / its worker stands
    thrown,               \* thrown[r]: the exception Read() raised, or NoThrow
    calls,                \* calls[r]: the invocations of the callback, in order
    queue,                \* work queued by Nan::AsyncQueueWorker, FIFO
    wfd, wsize,           \* PosixReadWorker::fd, ::size
    fd_was_non_blocking,  \* PosixReadWorker::fd_was_non_blocking
    opts,                 \* the local `opts` of SetBlocking / UnsetBlocking
    count,                \* the local `count` of Execute
    data,                 \* the bytes stored in PosixReadWorker::data so far
    heap,                 \* the state of the malloc'ed block `data` points to
    error_prop,           \* PosixReadWorker::error_prop
    errmsg,               \* AsyncWorker::ErrorMessage(): NULL or a string
    msg,                  \* `static char msg[256]` of Execute, one for all workers
    flags,                \* flags[f]: the file status flags of descriptor f
    pending,              \* pending[f]: bytes received on f and not yet read
    written,              \* written[f]: how many bytes the peer of f has written
    closed,               \* closed[f]: the peer of f has closed its end
    consumed,             \* consumed[r]: every byte read(2) returned to r (history)
    poolSize,             \* threads of the pool (UV_THREADPOOL_SIZE)
    readThread            \* readThread[r]: the thread that issued read(2) for r

vars == <<args, pc, thrown, calls, queue, wfd, wsize, fd_was_non_blocking, opts,
          count, data, heap, error_prop, errmsg, msg, flags, pending,
          written, closed, consumed, poolSize, readThread>>

(***************************************************************************)
(* Bounds of the model.                                                    *)
(***************************************************************************)
MaxSize == 2      \* largest requested size of a valid call
MaxMsg == 3       \* bytes a peer writes at most

Req == {1, 2}         \* the calls
Fds == {0, 1}         \* the descriptors of the open connections
PoolSizes == {1, 2}   \* the sizes of the thread pool (UV_THREADPOOL_SIZE)

NULL == "NULL"
NoThrow == [type |-> "none", message |-> ""]

(***************************************************************************)
(* JavaScript values.  A number is sign * (q * 2^31 + r + (half ? 1/2 : 0))*)
(* with 0 <= r < 2^31, so that values at and above 2^31 can be written.    *)
(***************************************************************************)
Int32Max == 2147483647

JsNum(neg, q, r, half) ==
    [t |-> "number", neg |-> neg, q |-> q, r |-> r, half |-> half]
JsInt(n) == JsNum(n < 0, 0, IF n < 0 THEN -n ELSE n, FALSE)
JsPrim(t) == [t |-> t, neg |-> FALSE, q |-> 0, r |-> 0, half |-> FALSE]
JsUndefined == JsPrim("undefined")
JsAbsent == JsPrim("absent")        \* the property does not exist
JsTrue == JsPrim("true")
JsFalse == JsPrim("false")
JsString == JsPrim("string")
JsFunction == JsPrim("function")

IsNumber(v) == v.t = "number"
IsBoolean(v) == v.t \in {"true", "false"}
IsFunction(v) == v.t = "function"

\* Nan::To<int>(value).FromJust() on a number: ECMAScript ToInt32, that is
\* truncation towards zero, then reduction modulo 2^32 into [-2^31, 2^31).
ToInt32(v) ==
    LET low == IF v.q % 2 = 1 THEN (v.r - Int32Max) - 1 ELSE v.r
    IN  IF ~v.neg THEN low
        ELSE IF low = (-Int32Max) - 1 THEN low
        ELSE -low

\* The object a socket's `_handle` property holds.
JsHandle(t, ctor, fd) == [t |-> t, ctor |-> ctor, fd |-> fd]
NoHandle == JsHandle("absent", "", JsAbsent)
\* A value passed as first argument.
JsObject(ctor, readable, handle) ==
    [t |-> "object", ctor |-> ctor, readable |-> readable, _handle |-> handle]
JsNonObject(t) ==
    [t |-> t, ctor |-> "", readable |-> JsAbsent, _handle |-> NoHandle]

IsObject(v) == v.t = "object"
Has(prop) == prop.t # "absent"

(***************************************************************************)
(* The checks Read() makes on its first argument.                          *)
(***************************************************************************)
\* Mutant: the constructor name is not compared with "Socket".
LooksLikeAnObject(object) == IsObject(object)

LooksLikeASocket(object) ==
    IF ~IsObject(object) THEN FALSE
    ELSE IF object.ctor # "Socket" THEN FALSE
    ELSE TRUE

\* Mutant: any truthy `readable` is taken, not only the boolean true.
SocketIsReadableTruthy(socket) ==
    Has(socket.readable) /\ socket.readable.t \in {"true", "number"}

SocketIsReadable(socket) ==
    IF ~Has(socket.readable) THEN FALSE
    ELSE IsBoolean(socket.readable) /\ socket.readable.t = "true"

\* Mutant: descriptor 0 is rejected with the negative ones.
GetFdRejectingZero(socket) ==
    LET handle == socket._handle IN
    IF handle.t # "object" \/ handle.ctor # "TCP" \/ ~IsNumber(handle.fd)
        THEN -1
    ELSE IF ToInt32(handle.fd) <= 0 THEN -1
    ELSE ToInt32(handle.fd)

GetFdFromSocket(socket) ==
    LET handle == socket._handle IN
    IF ~Has(handle) THEN -1
    ELSE IF handle.t # "object" THEN -1
    ELSE IF handle.ctor # "TCP" THEN -1
    ELSE IF ~Has(handle.fd) THEN -1
    ELSE IF ~IsNumber(handle.fd) THEN -1
    ELSE IF ToInt32(handle.fd) < 0 THEN -1
    ELSE ToInt32(handle.fd)

\* Mutant: err[property] = true is left out.
ErrorWithoutProperty(property, message) ==
    [property |-> "NULL", message |-> message]

\* const err = new Error(message); err[property] = true;
ErrorWithProperty(property, message) ==
    [property |-> property, message |-> message]
NoError == ErrorWithProperty(NULL, NULL)       \* Nan::Null()

TypeError(message) == [type |-> "TypeError", message |-> message]

\* One invocation of the callback: callback->Call(argc, argv) on `thread`.
Invocation(err, nargs, buffer, thread) ==
    [err |-> err, nargs |-> nargs, buffer |-> buffer, thread |-> thread]

\* Mutant: no `return` after the callback of a run-time check, so that Read()
\* goes on to the next check and to AsyncQueueWorker.
ReadOutcomeFallingThrough(a) ==
    IF a.argc # 3
        THEN [exc |-> TypeError("wrong number of arguments"), errs |-> <<>>,
              queued |-> FALSE, fd |-> 0, size |-> 0]
    ELSE IF ~LooksLikeASocket(a.socket)
        THEN [exc |-> TypeError("first argument should be a socket"),
              errs |-> <<>>, queued |-> FALSE, fd |-> 0, size |-> 0]
    ELSE IF ~IsNumber(a.size) \/ ToInt32(a.size) <= 0
        THEN [exc |-> TypeError("second argument should be a positive integer"),
              errs |-> <<>>, queued |-> FALSE, fd |-> 0, size |-> 0]
    ELSE IF ~IsFunction(a.callback)
        THEN [exc |-> TypeError("third argument should be a function"),
              errs |-> <<>>, queued |-> FALSE, fd |-> 0, size |-> 0]
    ELSE [exc |-> NoThrow,
          errs |->
            (IF SocketIsReadable(a.socket) THEN <<>>
             ELSE <<ErrorWithProperty("badStream", "socket is not readable")>>)
            \o (IF GetFdFromSocket(a.socket) # -1 THEN <<>>
                ELSE <<ErrorWithProperty("badStream",
                    "malformed socket object, cannot get file descriptor")>>),
          queued |-> TRUE,
          fd |-> GetFdFromSocket(a.socket), size |-> ToInt32(a.size)]

\* What Read() does with the arguments `a` before it returns: the exception
\* it raises, the errors it passes to the callback, whether it queues a
\* worker, and on which descriptor and for how many bytes.
Outcome(exc, errs, queued, fd, size) ==
    [exc |-> exc, errs |-> errs, queued |-> queued, fd |-> fd, size |-> size]
Throw(message) == Outcome(TypeError(message), <<>>, FALSE, 0, 0)
\* Mutant: the worker is queued all the same after callback(error).
CallbackErrorAndQueue(property, message) ==
    Outcome(NoThrow, <<ErrorWithProperty(property, message)>>, TRUE, 0, 1)

CallbackError(property, message) ==
    Outcome(NoThrow, <<ErrorWithProperty(property, message)>>, FALSE, 0, 0)

ReadOutcome(a) ==
    IF a.argc # 3
        THEN Throw("wrong number of arguments")
    ELSE IF ~LooksLikeASocket(a.socket)
        THEN Throw("first argument should be a socket")
    ELSE IF ~IsNumber(a.size) \/ ToInt32(a.size) <= 0
        THEN Throw("second argument should be a positive integer")
    ELSE IF ~IsFunction(a.callback)
        THEN Throw("third argument should be a function")
    ELSE IF ~SocketIsReadable(a.socket)
        THEN CallbackError("badStream", "socket is not readable")
    ELSE IF GetFdFromSocket(a.socket) = -1
        THEN CallbackError("badStream",
                "malformed socket object, cannot get file descriptor")
    ELSE Outcome(NoThrow, <<>>, TRUE, GetFdFromSocket(a.socket),
                 ToInt32(a.size))

(***************************************************************************)
(* The kernel side of a descriptor.                                        *)
(***************************************************************************)
O_NONBLOCK == "O_NONBLOCK"
O_RDWR == "O_RDWR"

\* The i-th byte the peer of descriptor f writes: every byte of every stream
\* is different, so that a lost, repeated, misplaced or foreign byte shows.
ByteAt(f, i) == <<f, i>>
Uninit == <<>>                 \* a byte of the malloc'ed block never written
Stream(f, from, to) == [i \in 1..(to - from + 1) |-> ByteAt(f, from + i - 1)]

Min(a, b) == IF a <= b THEN a ELSE b

\* strerror(errno)
strerror(e) ==
    CASE e = "EINTR" -> "Interrupted system call"
      [] e = "EAGAIN" -> "Resource temporarily unavailable"
      [] e = "EIO" -> "Input/output error"
      [] e = "EBADF" -> "Bad file descriptor"
      [] e = "ENOMEM" -> "Cannot allocate memory"
      [] OTHER -> "Success"

\* snprintf(msg, sizeof(msg), fmt, ...) of Execute
FmtErrno(what, e) == what \o " failed: " \o strerror(e)
FmtEndOfStream(n) == "reached end of stream (read " \o ToString(n) \o " bytes)"

\* Mutant: every chunk is stored at &data[0].
StoreAtStart(d, off, chunk) == chunk \o SubSeq(d, Len(chunk) + 1, Len(d))

\* Storing `chunk` at &data[off].
StoreAt(d, off, chunk) == SubSeq(d, 1, off) \o chunk

\* The content of the Buffer made of `size` bytes at `data`.
NewBuffer(d, size) == [i \in 1..size |-> IF i <= Len(d) THEN d[i] ELSE Uninit]

(***************************************************************************)
(* Read(): the synchronous part, on the main thread.                       *)
(***************************************************************************)
MainThread == "main"
\* Mutant: Execute() is run by the thread that called Read().
ExecuteInline == "main"
\* Execute() is "executed inside the worker-thread".
ExecuteThread == "worker"

\* The positions of a worker between the moment a pool thread takes it and
\* the return of Execute().
InExecute ==
    {"SetBlocking", "SetBlocking_set", "read", "read_blocked", "UnsetBlocking",
     "UnsetBlocking_set", "seterr_malloc", "seterr_sb", "seterr_rd", "seterr_ub"}
Running == {r \in Req : pc[r] \in InExecute}

\* callback->Call(1, argv) for each error of `errs`, in order.
CallEach(errs) ==
    [i \in 1..Len(errs) |-> Invocation(errs[i], 1, <<>>, MainThread)]

Read(r) ==
    /\ pc[r] = "idle"
    /\ LET o == ReadOutcome(args[r]) IN
        /\ thrown' = [thrown EXCEPT ![r] = o.exc]
        /\ calls' = [calls EXCEPT ![r] = @ \o CallEach(o.errs)]
        /\ wfd' = [wfd EXCEPT ![r] = o.fd]
        /\ wsize' = [wsize EXCEPT ![r] = o.size]
        /\ queue' = IF o.queued THEN Append(queue, r) ELSE queue
        /\ pc' = [pc EXCEPT ![r] =
                    IF o.queued THEN "queued"
                    ELSE IF o.exc # NoThrow THEN "thrown"
                    ELSE "done"]
    /\ UNCHANGED <<args, fd_was_non_blocking, opts, count, data, heap,
                   error_prop, errmsg, msg, flags, pending, written,
                   closed, consumed, poolSize, readThread>>

(***************************************************************************)
(* PosixReadWorker::Execute(), on a thread of the pool.  Every system call *)
(* is one step; the environment decides whether it fails.                  *)
(***************************************************************************)
\* error_prop = "systemError"; snprintf(msg, ..., "<what> failed: %s",
\* strerror(errno)); control then reaches SetErrorMessage at `next`.
SystemError(r, what, e, next) ==
    /\ error_prop' = [error_prop EXCEPT ![r] = "systemError"]
    /\ msg' = FmtErrno(what, e)
    /\ pc' = [pc EXCEPT ![r] = next]

\* Mutant: free(data) is left out.
FreeNothing(h) == h

\* free(data)
Free(h) == IF h = "live" THEN "freed" ELSE "double free"

\* A pool thread takes the worker at the head of the queue and starts
\* Execute(): count = 0; data = malloc(size).
ExecuteBegin(r) ==
    /\ pc[r] = "queued"
    /\ queue # <<>> /\ Head(queue) = r
    /\ Cardinality(Running) < poolSize
    /\ queue' = Tail(queue)
    /\ count' = [count EXCEPT ![r] = 0]
    /\ \/ /\ heap' = [heap EXCEPT ![r] = "live"]
          /\ data' = [data EXCEPT ![r] = <<>>]
          /\ pc' = [pc EXCEPT ![r] = "SetBlocking"]
          /\ UNCHANGED <<error_prop, msg>>
       \/ /\ SystemError(r, "malloc", "ENOMEM", "seterr_malloc")
          /\ UNCHANGED <<heap, data>>
    /\ UNCHANGED <<args, thrown, calls, wfd, wsize, fd_was_non_blocking, opts,
                   errmsg, flags, pending, written, closed, consumed, poolSize,
                   readThread>>

\* Mutant: every error path of Execute() goes on to UnsetBlocking().
RestoreAfterError(p) == "UnsetBlocking"

\* Mutant: every error path of Execute() returns at once.
ReturnAfterError(p) == "complete"

\* What follows SetErrorMessage(msg) at position p: `break` out of the loop,
\* which leads to UnsetBlocking(), or the end of Execute().
AfterError(p) == IF p = "seterr_rd" THEN "UnsetBlocking" ELSE "complete"

\* SetErrorMessage(msg), then what follows it on each path of Execute().
SetErrorMessage(r) ==
    /\ pc[r] \in {"seterr_malloc", "seterr_sb", "seterr_rd", "seterr_ub"}
    /\ errmsg' = [errmsg EXCEPT ![r] = msg]
    /\ heap' = [heap EXCEPT ![r] =
                    IF pc[r] = "seterr_malloc" THEN @ ELSE Free(@)]
    /\ pc' = [pc EXCEPT ![r] = AfterError(pc[r])]
    /\ UNCHANGED <<args, thrown, calls, queue, wfd, wsize, fd_was_non_blocking,
                   opts, count, data, error_prop, msg, flags, pending,
                   written, closed, consumed, poolSize, readThread>>

\* `opts` is a local of SetBlocking() and of UnsetBlocking(): it holds
\* nothing once they return.
NoOpts == {}

\* Mutant: opts &= ~O_NONBLOCK is left out.
KeepNonBlock(o) == o

\* Mutant: opts = 0 in place of opts &= ~O_NONBLOCK.
ClearAllFlags(o) == {}

\* opts &= ~O_NONBLOCK
ClearNonBlock(o) == o \ {O_NONBLOCK}
\* opts |= O_NONBLOCK
SetNonBlock(o) == o \cup {O_NONBLOCK}

\* SetBlocking(): opts = fcntl(fd, F_GETFL); fd_was_non_blocking = ...
SetBlockingGet(r) ==
    /\ pc[r] = "SetBlocking"
    /\ \/ /\ fd_was_non_blocking' =
                [fd_was_non_blocking EXCEPT ![r] = O_NONBLOCK \in flags[wfd[r]]]
          /\ opts' = [opts EXCEPT ![r] =
                        IF O_NONBLOCK \in flags[wfd[r]]
                        THEN ClearNonBlock(flags[wfd[r]]) ELSE NoOpts]
          /\ pc' = [pc EXCEPT ![r] =
                        IF O_NONBLOCK \in flags[wfd[r]]
                        THEN "SetBlocking_set" ELSE "read"]
          /\ UNCHANGED <<error_prop, msg>>
       \/ /\ SystemError(r, "fnctl", "EBADF", "seterr_sb")
          /\ UNCHANGED <<fd_was_non_blocking, opts>>
    /\ UNCHANGED <<args, thrown, calls, queue, wfd, wsize, count, data, heap,
                   errmsg, flags, pending, written, closed, consumed, poolSize,
                   readThread>>

\* SetBlocking(): fcntl(fd, F_SETFL, opts)
SetBlockingSet(r) ==
    /\ pc[r] = "SetBlocking_set"
    /\ \/ /\ flags' = [flags EXCEPT ![wfd[r]] = opts[r]]
          /\ pc' = [pc EXCEPT ![r] = "read"]
          /\ UNCHANGED <<error_prop, msg>>
       \/ /\ SystemError(r, "fnctl", "EBADF", "seterr_sb")
          /\ UNCHANGED flags
    /\ opts' = [opts EXCEPT ![r] = NoOpts]
    /\ UNCHANGED <<args, thrown, calls, queue, wfd, wsize, fd_was_non_blocking,
                   count, data, heap, errmsg, pending, written, closed,
                   consumed, poolSize, readThread>>

(***************************************************************************)
(* The loop  do { n = read(fd, &data[count], size - count); ... }          *)
(*           while (count < size);                                         *)
(***************************************************************************)
InRead(r) == pc[r] \in {"read", "read_blocked"}
\* Mutant: the loop is left after its first turn.
LoopOnce(c, size) == "UnsetBlocking"

\* Mutant: the loop goes round again whatever it has read.
LoopForEver(c, size) == "read"

\* `continue` and the end of the body both reach the test count < size.
LoopTest(c, size) == IF c < size THEN "read" ELSE "UnsetBlocking"

ReadFrame ==
    UNCHANGED <<args, thrown, calls, queue, wfd, wsize, fd_was_non_blocking,
                opts, heap, errmsg, flags, written, closed, poolSize>>

\* Mutant: read(2) is asked for `size` bytes whatever was read before.
ReadLengthWhole(size, c) == size

\* The third argument of read(2): size - count.
ReadLength(size, c) == size - c

\* read(2) returns n > 0 bytes, at most as many as asked for: count += n.
ReadData(r) ==
    /\ InRead(r)
    /\ pending[wfd[r]] # <<>>
    /\ \E n \in 1..Min(Len(pending[wfd[r]]), ReadLength(wsize[r], count[r])) :
        LET avail == pending[wfd[r]]
            chunk == SubSeq(avail, 1, n)
        IN  /\ data' = [data EXCEPT ![r] = StoreAt(@, count[r], chunk)]
            /\ count' = [count EXCEPT ![r] = @ + n]
            /\ pending' = [pending EXCEPT ![wfd[r]] =
                                SubSeq(avail, n + 1, Len(avail))]
            /\ consumed' = [consumed EXCEPT ![r] = @ \o chunk]
            /\ pc' = [pc EXCEPT ![r] = LoopTest(count[r] + n, wsize[r])]
    /\ readThread' = [readThread EXCEPT ![r] = ExecuteThread]
    /\ UNCHANGED <<error_prop, msg>>
    /\ ReadFrame

\* read(2) returns 0: end of stream.
ReadEof(r) ==
    /\ InRead(r)
    /\ pending[wfd[r]] = <<>> /\ closed[wfd[r]]
    /\ error_prop' = [error_prop EXCEPT ![r] = "endOfFile"]
    /\ msg' = FmtEndOfStream(count[r])
    /\ pc' = [pc EXCEPT ![r] = "seterr_rd"]
    /\ readThread' = [readThread EXCEPT ![r] = ExecuteThread]
    /\ UNCHANGED <<count, data, pending, consumed>>
    /\ ReadFrame

\* read(2) finds nothing to read on an open stream in blocking mode: the
\* thread sleeps in the kernel.
ReadBlock(r) ==
    /\ pc[r] = "read"
    /\ pending[wfd[r]] = <<>> /\ ~closed[wfd[r]]
    /\ O_NONBLOCK \notin flags[wfd[r]]
    /\ pc' = [pc EXCEPT ![r] = "read_blocked"]
    /\ readThread' = [readThread EXCEPT ![r] = ExecuteThread]
    /\ UNCHANGED <<count, data, pending, consumed, error_prop, msg>>
    /\ ReadFrame

\* read(2) returns -1 with errno == EINTR: continue.
ReadIntr(r) ==
    /\ InRead(r)
    /\ pc' = [pc EXCEPT ![r] = LoopTest(count[r], wsize[r])]
    /\ readThread' = [readThread EXCEPT ![r] = ExecuteThread]
    /\ UNCHANGED <<count, data, pending, consumed, error_prop, msg>>
    /\ ReadFrame

\* read(2) finds nothing to read on an open stream in non-blocking mode:
\* -1 with errno == EAGAIN, which is not EINTR.
ReadAgain(r) ==
    /\ pc[r] = "read"
    /\ pending[wfd[r]] = <<>> /\ ~closed[wfd[r]]
    /\ O_NONBLOCK \in flags[wfd[r]]
    /\ SystemError(r, "read", "EAGAIN", "seterr_rd")
    /\ readThread' = [readThread EXCEPT ![r] = ExecuteThread]
    /\ UNCHANGED <<count, data, pending, consumed>>
    /\ ReadFrame

\* read(2) returns -1 with another errno.
ReadError(r) ==
    /\ InRead(r)
    /\ SystemError(r, "read", "EIO", "seterr_rd")
    /\ readThread' = [readThread EXCEPT ![r] = ExecuteThread]
    /\ UNCHANGED <<count, data, pending, consumed>>
    /\ ReadFrame

(***************************************************************************)
(* UnsetBlocking() and the end of Execute().                               *)
(***************************************************************************)
\* Mutant: the value UnsetBlocking() returns is not looked at.
UnsetBlockingIgnored(r) ==
    /\ pc' = [pc EXCEPT ![r] = "complete"]
    /\ UNCHANGED <<error_prop, msg>>

\* if (UnsetBlocking()) { if (ErrorMessage() == NULL) { ... } }
UnsetBlockingFailed(r) ==
    IF errmsg[r] = NULL
    THEN SystemError(r, "fnctl", "EBADF", "seterr_ub")
    ELSE /\ pc' = [pc EXCEPT ![r] = "complete"]
         /\ UNCHANGED <<error_prop, msg>>

\* UnsetBlocking(): if (fd_was_non_blocking) opts = fcntl(fd, F_GETFL) ...
UnsetBlockingGet(r) ==
    /\ pc[r] = "UnsetBlocking"
    /\ IF ~fd_was_non_blocking[r]
       THEN /\ pc' = [pc EXCEPT ![r] = "complete"]
            /\ UNCHANGED <<opts, error_prop, msg>>
       ELSE \/ /\ opts' = [opts EXCEPT ![r] = SetNonBlock(flags[wfd[r]])]
               /\ pc' = [pc EXCEPT ![r] = "UnsetBlocking_set"]
               /\ UNCHANGED <<error_prop, msg>>
            \/ /\ UnsetBlockingFailed(r)
               /\ UNCHANGED opts
    /\ UNCHANGED <<args, thrown, calls, queue, wfd, wsize, fd_was_non_blocking,
                   count, data, heap, errmsg, flags, pending, written, closed,
                   consumed, poolSize, readThread>>

\* UnsetBlocking(): fcntl(fd, F_SETFL, opts)
UnsetBlockingSet(r) ==
    /\ pc[r] = "UnsetBlocking_set"
    /\ \/ /\ flags' = [flags EXCEPT ![wfd[r]] = opts[r]]
          /\ pc' = [pc EXCEPT ![r] = "complete"]
          /\ UNCHANGED <<error_prop, msg>>
       \/ /\ UnsetBlockingFailed(r)
          /\ UNCHANGED flags
    /\ opts' = [opts EXCEPT ![r] = NoOpts]
    /\ UNCHANGED <<args, thrown, calls, queue, wfd, wsize, fd_was_non_blocking,
                   count, data, heap, errmsg, pending, written, closed,
                   consumed, poolSize, readThread>>

(***************************************************************************)
(* Back on the main loop, once Execute() has returned.                     *)
(***************************************************************************)
CallbackFrame ==
    UNCHANGED <<args, thrown, queue, wfd, wsize, fd_was_non_blocking, opts,
                count, data, error_prop, errmsg, msg, flags, pending,
                written, closed, consumed, poolSize, readThread>>

\* callback(null, Nan::NewBuffer(data, size)): the Buffer now owns `data`.
HandleOKCallback(r) ==
    /\ pc[r] = "complete"
    /\ errmsg[r] = NULL
    /\ calls' = [calls EXCEPT ![r] =
            Append(@, Invocation(NoError, 2, NewBuffer(data[r], wsize[r]),
                                 MainThread))]
    /\ heap' = [heap EXCEPT ![r] = IF @ = "live" THEN "buffer" ELSE "dangling"]
    /\ pc' = [pc EXCEPT ![r] = "done"]
    /\ CallbackFrame

\* callback(ErrorWithProperty(error_prop, ErrorMessage()))
HandleErrorCallback(r) ==
    /\ pc[r] = "complete"
    /\ errmsg[r] # NULL
    /\ calls' = [calls EXCEPT ![r] =
            Append(@, Invocation(ErrorWithProperty(error_prop[r], errmsg[r]),
                                 1, <<>>, MainThread))]
    /\ pc' = [pc EXCEPT ![r] = "done"]
    /\ UNCHANGED heap
    /\ CallbackFrame

(***************************************************************************)
(* The peer of a descriptor.                                               *)
(***************************************************************************)
PeerFrame ==
    UNCHANGED <<args, pc, thrown, calls, queue, wfd, wsize,
                fd_was_non_blocking, opts, count, data, heap, error_prop,
                errmsg, msg, flags, consumed, poolSize, readThread>>

\* One write of n bytes by the peer of f.
PeerWrite(f) ==
    /\ ~closed[f]
    /\ \E n \in 1..(MaxMsg - written[f]) :
        /\ pending' = [pending EXCEPT ![f] =
                            @ \o Stream(f, written[f] + 1, written[f] + n)]
        /\ written' = [written EXCEPT ![f] = @ + n]
    /\ UNCHANGED closed
    /\ PeerFrame

\* The peer of f closes its end (otherEnd.end()).
PeerClose(f) ==
    /\ ~closed[f]
    /\ closed' = [closed EXCEPT ![f] = TRUE]
    /\ UNCHANGED <<pending, written>>
    /\ PeerFrame

(***************************************************************************)
(* The calls.                                                              *)
(***************************************************************************)
Arguments(argc, socket, size, callback) ==
    [argc |-> argc, socket |-> socket, size |-> size, callback |-> callback]

\* A paused net.Socket of an accepted connection on descriptor f.
ConnectedSocket(f) ==
    JsObject("Socket", JsTrue, JsHandle("object", "TCP", JsInt(f)))
\* new net.Socket(): not connected, `_handle` is null.
NewSocket == JsObject("Socket", JsFalse, JsHandle("null", "", JsAbsent))
\* socket._handle = {}
EmptyHandleSocket ==
    JsObject("Socket", JsTrue, JsHandle("object", "Object", JsAbsent))

HandleValues ==
    {NoHandle, JsHandle("null", "", JsAbsent)}
    \cup {JsHandle("object", c, fd) :
            c \in {"TCP", "Object"},
            fd \in {JsAbsent, JsUndefined, JsInt(-1)} \cup {JsInt(f) : f \in Fds}}
ReadableValues == {JsAbsent, JsUndefined, JsTrue, JsFalse, JsInt(1)}
SocketValues ==
    {JsNonObject("undefined"), JsNonObject("number")}
    \cup {JsObject(c, rd, h) :
            c \in {"Socket", "Object"}, rd \in ReadableValues, h \in HandleValues}
\* "test", -2, 0, 1/2, 1 .. MaxSize, 1 + 1/2, 2^31, 2^32 + 1
SizeValues ==
    {JsString, JsInt(-2), JsInt(0), JsNum(FALSE, 0, 0, TRUE),
     JsNum(FALSE, 0, 1, TRUE), JsNum(FALSE, 1, 0, FALSE),
     JsNum(FALSE, 2, 1, FALSE)}
    \cup {JsInt(n) : n \in 1..MaxSize}
CallbackValues == {JsFunction, JsString}

\* Every shape of call: three arguments of any kind, or too few, or too many.
AllArguments ==
    {Arguments(3, s, n, cb) :
        s \in SocketValues, n \in SizeValues, cb \in CallbackValues}
    \cup {Arguments(2, ConnectedSocket(0), JsInt(1), JsUndefined),
          Arguments(4, ConnectedSocket(0), JsInt(1), JsFunction)}

\* The calls of a program that uses the addon on its connections.
RunArguments ==
    {Arguments(3, ConnectedSocket(f), JsInt(n), JsFunction) :
        f \in Fds, n \in 1..MaxSize}

FlagValues == {{O_RDWR}, {O_RDWR, O_NONBLOCK}}

InitWorkers ==
    /\ thrown = [r \in Req |-> NoThrow]
    /\ calls = [r \in Req |-> <<>>]
    /\ queue = <<>>
    /\ wfd = [r \in Req |-> 0]
    /\ wsize = [r \in Req |-> 0]
    /\ fd_was_non_blocking = [r \in Req |-> FALSE]
    /\ opts = [r \in Req |-> NoOpts]
    /\ count = [r \in Req |-> 0]
    /\ data = [r \in Req |-> <<>>]
    /\ heap = [r \in Req |-> "none"]
    /\ error_prop = [r \in Req |-> NULL]
    /\ errmsg = [r \in Req |-> NULL]
    /\ msg = ""
    /\ consumed = [r \in Req |-> <<>>]
    /\ readThread = [r \in Req |-> "none"]

InitKernel ==
    /\ pending = [f \in Fds |-> <<>>]
    /\ written = [f \in Fds |-> 0]
    /\ closed = [f \in Fds |-> FALSE]

\* Two calls of a program on its connections, which libuv has made
\* non-blocking.  The descriptors being alike, call 1 is the one on
\* descriptor 0; call 2 is on the same descriptor or on the other one.
Init ==
    /\ args \in [Req -> RunArguments]
    /\ args[1].socket = ConnectedSocket(0)
    /\ flags = [f \in Fds |-> {O_RDWR, O_NONBLOCK}]
    /\ pc = [r \in Req |-> "idle"]
    /\ poolSize \in PoolSizes
    /\ InitWorkers
    /\ InitKernel

\* One call, with arguments of every shape.
InitArgs ==
    /\ \E a \in AllArguments :
            args = [r \in Req |-> IF r = 1 THEN a
                                   ELSE Arguments(3, NewSocket, JsInt(1), JsFunction)]
    /\ pc = [r \in Req |-> IF r = 1 THEN "idle" ELSE "unused"]
    /\ poolSize = 1
    /\ flags \in [Fds -> FlagValues]
    /\ InitWorkers
    /\ InitKernel

Execute(r) ==
    \/ ExecuteBegin(r)
    \/ SetErrorMessage(r)
    \/ SetBlockingGet(r)
    \/ SetBlockingSet(r)
    \/ ReadData(r)
    \/ ReadEof(r)
    \/ ReadBlock(r)
    \/ ReadIntr(r)
    \/ ReadError(r)
    \/ UnsetBlockingGet(r)
    \/ UnsetBlockingSet(r)

WorkComplete(r) == HandleOKCallback(r) \/ HandleErrorCallback(r)

Peer(f) == PeerWrite(f) \/ PeerClose(f)

Call(r) == Read(r) \/ Execute(r) \/ WorkComplete(r)

\* The descriptors the calls are about: those of the connections passed as
\* first argument.  The peers of the other descriptors are left out.
Connections ==
    {f \in Fds : \E r \in Req :
        /\ pc[r] # "unused"
        /\ LooksLikeASocket(args[r].socket)
        /\ GetFdFromSocket(args[r].socket) = f}

\* Calls none of which finds its descriptor in non-blocking mode when it
\* reads: a single call, or calls on descriptors of their own.
NextArgs ==
    \/ \E r \in Req : Call(r)
    \/ \E f \in Connections : Peer(f)

Next ==
    \/ NextArgs
    \/ \E r \in Req : ReadAgain(r)

Spec == Init /\ [][Next]_vars
SpecArgs == InitArgs /\ [][NextArgs]_vars

\* Two calls of MaxSize bytes, each on a descriptor of its own.
InitApart ==
    /\ Init
    /\ args[2].socket = ConnectedSocket(1)
    /\ \A r \in Req : args[r].size = JsInt(MaxSize)

\* What the scheduling guarantees to worker r: a free thread of the pool
\* takes the work at the head of the queue, a thread that is not inside
\* read(2) goes on, a read(2) that has bytes to return or has reached the end
\* of the stream returns and one that has neither sleeps, and the main loop runs the completion of a worker
\* whose Execute() has returned.  Nothing is assumed of the peers nor of the
\* caller.
Progress(r) ==
    \/ ExecuteBegin(r)
    \/ SetErrorMessage(r)
    \/ SetBlockingGet(r)
    \/ SetBlockingSet(r)
    \/ ReadData(r)
    \/ ReadEof(r)
    \/ ReadBlock(r)
    \/ UnsetBlockingGet(r)
    \/ UnsetBlockingSet(r)
    \/ WorkComplete(r)

\* A call of fcntl by worker r returns -1 in this step.
FcntlFails(r) ==
    \/ pc[r] \in {"SetBlocking", "SetBlocking_set"} /\ pc'[r] = "seterr_sb"
    \/ /\ pc[r] = "UnsetBlocking" /\ fd_was_non_blocking[r]
       /\ pc'[r] # "UnsetBlocking_set"
    \/ /\ pc[r] = "UnsetBlocking_set"
       /\ pc'[r] = "seterr_ub" \/ (pc'[r] = "complete" /\ flags' = flags)

\* A single call, with arguments of every shape, every call of fcntl
\* succeeding.
NextNoFcntlFailure == NextArgs /\ \A r \in Req : ~FcntlFails(r)
SpecNoFcntlFailure == InitArgs /\ [][NextNoFcntlFailure]_vars

FairSpec ==
    InitApart /\ [][NextArgs]_vars /\ \A r \in Req : WF_vars(Progress(r))

(***************************************************************************)
(* What the properties say of a call, in terms of the JavaScript values    *)
(* passed and of what the caller observes.                                 *)
(***************************************************************************)
Called(r) == pc[r] \notin {"idle", "unused"}
ThreeArgs(r) == args[r].argc = 3
SocketShaped(v) == v.t = "object" /\ v.ctor = "Socket"
PositiveInteger(v) ==
    v.t = "number" /\ ~v.neg /\ ~v.half /\ (v.q > 0 \/ v.r > 0)
\* A positive integer within the range of int.
ValidSize(v) == PositiveInteger(v) /\ v.q = 0
Callable(v) == v.t = "function"
NoReadableFlag(v) == v.readable.t = "absent"
NoUnderlyingHandle(v) == v._handle.t \in {"absent", "null"}
\* The `_handle` is not a TCP object with a numeric descriptor >= 0.
NoDescriptor(v) ==
    \/ v._handle.t # "object"
    \/ v._handle.ctor # "TCP"
    \/ v._handle.fd.t # "number"
    \/ v._handle.fd.neg

\* Read() raised TypeError(message) and the callback was not invoked.
Raised(r, message) ==
    /\ pc[r] = "thrown"
    /\ thrown[r] = [type |-> "TypeError", message |-> message]
    /\ calls[r] = <<>>

\* Nothing was raised and the callback was invoked once, on the main
\* thread, with an error carrying `property` and `message` and no buffer.
Reported(r, property, message) ==
    /\ thrown[r] = NoThrow
    /\ Len(calls[r]) = 1
    /\ calls[r][1].err = [property |-> property, message |-> message]
    /\ calls[r][1].nargs = 1
    /\ calls[r][1].thread = "main"

NotASocketMessage == "first argument should be a socket"
BadSizeMessage == "second argument should be a positive integer"
BadCallbackMessage == "third argument should be a function"
NotReadableMessage == "socket is not readable"
MalformedMessage == "malformed socket object, cannot get file descriptor"

\* C7, as stated: every malformed handle (wrong type, non-socket object, or
\* a socket with no readable flag or no underlying handle), passed with a
\* valid size and handler, makes read() raise "first argument should be a
\* socket" and the handler is never invoked.
C7_AsStated ==
    \A r \in Req :
        (/\ Called(r) /\ ThreeArgs(r)
         /\ ValidSize(args[r].size) /\ Callable(args[r].callback)
         /\ \/ ~SocketShaped(args[r].socket)
            \/ NoReadableFlag(args[r].socket)
            \/ NoUnderlyingHandle(args[r].socket))
        => Raised(r, NotASocketMessage)

\* C7, amended: a handle that is not an object constructed by Socket makes
\* read() raise "first argument should be a socket" and the handler is never
\* invoked; a Socket object with missing fields is no usage error: with a
\* valid size and handler, a missing readable flag is reported to the handler
\* as BadStream "socket is not readable", and a missing underlying handle of
\* a readable socket as BadStream "malformed socket object, cannot get file
\* descriptor".
C7_NonSocketRaises ==
    \A r \in Req :
        (Called(r) /\ ThreeArgs(r)) =>
            /\ ~SocketShaped(args[r].socket) => Raised(r, NotASocketMessage)
            /\ (/\ SocketShaped(args[r].socket)
                /\ ValidSize(args[r].size) /\ Callable(args[r].callback))
               => /\ NoReadableFlag(args[r].socket)
                        => Reported(r, "badStream", NotReadableMessage)
                  /\ (/\ args[r].socket.readable.t = "true"
                      /\ NoUnderlyingHandle(args[r].socket))
                        => Reported(r, "badStream", MalformedMessage)

\* A fake socket { _handle: { fd: 1 }, readable: true } has been refused.
C7_Witness ==
    \E r \in Req :
        /\ args[r].socket =
                JsObject("Object", JsTrue, JsHandle("object", "Object", JsInt(1)))
        /\ Raised(r, NotASocketMessage)

\* C8: with a socket-shaped handle, a size that is not a positive integer
\* (the handler being callable) makes read() raise TypeError "second argument
\* should be a positive integer", and (the size being valid) a handler that
\* is not callable makes it raise TypeError "third argument should be a
\* function"; the handler is never invoked.
C8_BadSizeOrCallbackRaises ==
    \A r \in Req :
        (Called(r) /\ ThreeArgs(r) /\ SocketShaped(args[r].socket)) =>
            /\ (~PositiveInteger(args[r].size) /\ Callable(args[r].callback))
                    => Raised(r, BadSizeMessage)
            /\ (ValidSize(args[r].size) /\ ~Callable(args[r].callback))
                    => Raised(r, BadCallbackMessage)

\* C9: a socket-shaped handle whose readable flag is not true, with a valid
\* size and handler, yields BadStream "socket is not readable" through the
\* handler, and nothing is thrown.
C9_NotReadableIsBadStream ==
    \A r \in Req :
        (/\ Called(r) /\ ThreeArgs(r)
         /\ SocketShaped(args[r].socket)
         /\ args[r].socket.readable.t # "true"
         /\ ValidSize(args[r].size) /\ Callable(args[r].callback))
        => Reported(r, "badStream", NotReadableMessage)

\* new net.Socket() has been reported as not readable.
C9_Witness ==
    \E r \in Req :
        /\ args[r].socket = NewSocket
        /\ Reported(r, "badStream", NotReadableMessage)

\* C10: a readable socket-shaped handle whose underlying handle is absent, is
\* not a TCP object or has no numeric non-negative descriptor yields BadStream
\* "malformed socket object, cannot get file descriptor" through the handler;
\* every descriptor >= 0, 0 included, is accepted: the worker is handed that
\* descriptor and no BadStream is reported.
C10_MalformedIsBadStream ==
    \A r \in Req :
        (/\ Called(r) /\ ThreeArgs(r)
         /\ SocketShaped(args[r].socket)
         /\ args[r].socket.readable.t = "true"
         /\ ValidSize(args[r].size) /\ Callable(args[r].callback))
        => IF NoDescriptor(args[r].socket)
           THEN Reported(r, "badStream", MalformedMessage)
           ELSE /\ thrown[r] = NoThrow
                /\ wfd[r] = args[r].socket._handle.fd.r
                /\ \A i \in 1..Len(calls[r]) :
                        calls[r][i].err.property # "badStream"

\* A socket whose _handle is {} has been reported as malformed.
C10_Witness ==
    \E r \in Req :
        /\ args[r].socket = EmptyHandleSocket
        /\ Reported(r, "badStream", MalformedMessage)

(***************************************************************************)
(* Valid requests.                                                         *)
(***************************************************************************)
\* A paused connection, a positive integer within the range of int and a
\* function.
ValidRequest(r) ==
    /\ pc[r] # "unused"
    /\ ThreeArgs(r)
    /\ SocketShaped(args[r].socket)
    /\ args[r].socket.readable.t = "true"
    /\ ~NoDescriptor(args[r].socket)
    /\ ValidSize(args[r].size)
    /\ Callable(args[r].callback)
\* The N and the descriptor of a valid request, as the caller gave them.
RequestedSize(r) == args[r].size.r
Descriptor(r) == args[r].socket._handle.fd.r
\* No other request is made on the descriptor of r.
OwnDescriptor(r) ==
    \A o \in Req \ {r} : ValidRequest(o) => Descriptor(o) # Descriptor(r)

\* C1: for a valid request (handle, N) on a descriptor of its own, the buffer
\* delivered on Success has exactly N bytes, which are the first N bytes the
\* peer wrote, in order (so that the peer has written at least N bytes),
\* however the peer split its writes and however many bytes each read(2)
\* returned.
C1_SuccessIsFirstNBytes ==
    \A r \in Req :
        (ValidRequest(r) /\ OwnDescriptor(r)) =>
            \A i \in 1..Len(calls[r]) :
                calls[r][i].err = NoError =>
                    /\ calls[r][i].nargs = 2
                    /\ Len(calls[r][i].buffer) = RequestedSize(r)
                    /\ calls[r][i].buffer =
                            Stream(Descriptor(r), 1, RequestedSize(r))
                    /\ written[Descriptor(r)] >= RequestedSize(r)

\* A request for MaxSize bytes has succeeded after the peer wrote more.
C1_Witness ==
    \E r \in Req :
        /\ ValidRequest(r)
        /\ RequestedSize(r) = MaxSize
        /\ pc[r] = "done"
        /\ Len(calls[r]) = 1 /\ calls[r][1].err = NoError
        /\ written[Descriptor(r)] > MaxSize

\* C2: a valid request for N bytes on a descriptor of its own never takes
\* more than N bytes from it, and at every moment, whatever the outcome, the
\* bytes it took followed by the bytes still pending on the descriptor are
\* the bytes the peer wrote, in order.
C2_NeverConsumesMoreThanN ==
    \A r \in Req :
        (ValidRequest(r) /\ OwnDescriptor(r)) =>
            /\ Len(consumed[r]) <= RequestedSize(r)
            /\ consumed[r] \o pending[Descriptor(r)] =
                    Stream(Descriptor(r), 1, written[Descriptor(r)])

\* A request has completed with all its bytes and has left on the descriptor
\* the bytes the peer wrote beyond them.
C2_Witness ==
    \E r \in Req :
        /\ ValidRequest(r)
        /\ pc[r] = "done"
        /\ Len(consumed[r]) = RequestedSize(r)
        /\ pending[Descriptor(r)] # <<>>

\* C4: for a call that passes argument validation (nothing is raised), the
\* handler is never invoked twice, it has been invoked once when the call is
\* over (a BadStream reported by Read(), or the worker's Success, EndOfFile
\* or SystemError), and it is not invoked before; it is never invoked for a
\* call that raised.
C4_HandlerInvokedOnce ==
    \A r \in Req :
        /\ Len(calls[r]) <= 1
        /\ pc[r] = "done" <=> Len(calls[r]) = 1
        /\ pc[r] = "done" =>
                calls[r][1].err.property \in
                    {NULL, "badStream", "endOfFile", "systemError"}

\* The read loop has failed, then the restoration of the non-blocking mode
\* has failed too, and the handler has been invoked.
C4_Witness ==
    \E r \in Req :
        /\ pc[r] = "done"
        /\ calls[r][1].err =
                [property |-> "systemError",
                 message |-> "read failed: Input/output error"]
        /\ fd_was_non_blocking[r]
        /\ O_NONBLOCK \notin flags[wfd[r]]

(***************************************************************************)
(* Requests in flight together.                                            *)
(***************************************************************************)
EndOfStreamMessage(k) ==
    "reached end of stream (read " \o ToString(k) \o " bytes)"

\* C3: when a valid request for N bytes on a descriptor of its own ends with
\* an EndOfFile error, the peer has closed after fewer than N bytes and the
\* message is "reached end of stream (read k bytes)" with k the number of
\* bytes this request collected, also when another request on another
\* descriptor is in flight.
C3_EndOfFileCountsItsBytes ==
    \A r \in Req :
        (/\ ValidRequest(r) /\ OwnDescriptor(r)
         /\ pc[r] = "done"
         /\ calls[r][1].err.property = "endOfFile")
        => /\ closed[Descriptor(r)]
           /\ Len(consumed[r]) < RequestedSize(r)
           /\ calls[r][1].err.message = EndOfStreamMessage(Len(consumed[r]))

\* C5: Read() returns before any read(2) is issued for the request (a queued
\* request has read nothing), every read(2) is issued by a worker thread and
\* never by the thread that called Read(), and every notification is
\* delivered on the main thread.
C5_ReadDoesNotBlockTheCaller ==
    \A r \in Req :
        /\ pc[r] \in {"idle", "queued", "thrown"} =>
                readThread[r] = "none" /\ consumed[r] = <<>>
        /\ readThread[r] # "main"
        /\ \A i \in 1..Len(calls[r]) : calls[r][i].thread = "main"

\* While the worker of one request sleeps in read(2), its peer having
\* written nothing, the caller has issued another request and has been
\* notified of its success.
C5_Witness ==
    \E r, o \in Req :
        /\ r # o
        /\ pc[r] = "read_blocked"
        /\ written[wfd[r]] = 0
        /\ pc[o] = "done"
        /\ calls[o][1].err = NoError

(***************************************************************************)
(* Liveness.                                                               *)
(***************************************************************************)
InFlight(r) == pc[r] = "queued" \/ pc[r] \in InExecute \/ pc[r] = "complete"
\* The peer of r has written at least N bytes, or has closed.
PeerHasDelivered(r) ==
    written[Descriptor(r)] >= RequestedSize(r) \/ closed[Descriptor(r)]
\* r has been issued and its peer has sent nothing yet.
IssuedEarly(r) ==
    /\ ValidRequest(r) /\ OwnDescriptor(r)
    /\ pc[r] = "queued"
    /\ written[Descriptor(r)] = 0 /\ ~closed[Descriptor(r)]
\* The other requests in flight whose peer has neither written enough nor
\* closed: each may hold a thread of the pool for ever.
Starving(r) == {o \in Req \ {r} : InFlight(o) /\ ~PeerHasDelivered(o)}

\* C6, as stated: a valid request issued before its peer has sent anything
\* is eventually over, its handler invoked, once the peer has written at
\* least N bytes or closed, whatever the other requests in flight.
C6_AsStated ==
    \A r \in Req :
        [](IssuedEarly(r) => [](PeerHasDelivered(r) => <>(pc[r] = "done")))

\* C6, amended: a valid request issued before its peer has sent anything is
\* eventually over, its handler invoked exactly once, once the peer has
\* written at least N bytes or closed, provided the other requests in flight
\* whose peer has neither written enough nor closed are fewer than the
\* threads of the pool.
C6_EventuallyNotified ==
    \A r \in Req :
        [](IssuedEarly(r) =>
            []((PeerHasDelivered(r) /\ Cardinality(Starving(r)) < poolSize)
                    => <>(pc[r] = "done" /\ Len(calls[r]) = 1)))

\* A request issued before its peer wrote has been notified of its success
\* while the other request, whose peer wrote nothing, sleeps in read(2).
C6_Witness ==
    \E r, o \in Req :
        /\ r # o
        /\ pc[r] = "done"
        /\ calls[r][1].err = NoError
        /\ pc[o] = "read_blocked"
        /\ written[wfd[o]] = 0

(***************************************************************************)
(* The read loop and the blocking-mode guard.                              *)
(***************************************************************************)
\* A system-call failure of read(2) as the handler sees it.
ReadFailedMessage(e) == "read failed: " \o strerror(e)

\* C11, as stated: a read(2) that fails with EINTR or with EAGAIN is retried
\* inside the loop; neither ever reaches the completion handler as an error.
C11_InterruptedReadsAreRetried ==
    \A r \in Req : \A i \in 1..Len(calls[r]) :
        calls[r][i].err.message \notin
            {ReadFailedMessage("EINTR"), ReadFailedMessage("EAGAIN")}

\* The worker of r has left the read loop, whatever the way.
AfterLoop(r) ==
    pc[r] \in {"UnsetBlocking", "UnsetBlocking_set", "seterr_ub", "complete",
               "done"}
    /\ heap[r] # "none"
NonBlocking(f) == O_NONBLOCK \in flags[f]

\* C12: with no fcntl failure, a descriptor that was non-blocking at entry
\* is blocking during every read(2); F_SETFL is only issued for a descriptor
\* that was non-blocking at entry; and when the handler has been notified,
\* after success, end of file or a read error, the mode of the descriptor is
\* the mode found at entry.
C12_BlockingModeGuard ==
    \A r \in Req :
        (ValidRequest(r) /\ OwnDescriptor(r)) =>
            /\ (InRead(r) \/ pc[r] = "seterr_rd") => ~NonBlocking(wfd[r])
            /\ pc[r] \in {"SetBlocking_set", "UnsetBlocking_set"}
                    => fd_was_non_blocking[r]
            /\ (AfterLoop(r) /\ ~fd_was_non_blocking[r])
                    => ~NonBlocking(wfd[r])
            /\ (pc[r] = "done" /\ AfterLoop(r))
                    => (NonBlocking(wfd[r]) <=> fd_was_non_blocking[r])

\* A request on a non-blocking descriptor has ended in end of file and the
\* descriptor is non-blocking again.
C12_Witness ==
    \E r \in Req :
        /\ pc[r] = "done"
        /\ fd_was_non_blocking[r]
        /\ calls[r][1].err.property = "endOfFile"
        /\ NonBlocking(wfd[r])

\* The worker of r cleared O_NONBLOCK and, its loop over, did not manage to
\* set it again (for a request alone on its descriptor).
RestoreFailed(r) ==
    /\ pc[r] = "done"
    /\ AfterLoop(r)
    /\ fd_was_non_blocking[r]
    /\ ~NonBlocking(wfd[r])
FcntlFailedMessage == "fnctl failed: " \o strerror("EBADF")

\* C13, as stated: whenever re-applying non-blocking mode fails, the error
\* delivered to the handler is a SystemError, whether the loop ended in
\* success, in end of file or in a read error.
C13_AsStated ==
    \A r \in Req :
        (ValidRequest(r) /\ OwnDescriptor(r) /\ RestoreFailed(r)) =>
            /\ Len(calls[r]) = 1
            /\ calls[r][1].err.property = "systemError"

\* C13, amended: when re-applying non-blocking mode fails after a loop that
\* read all N bytes, the handler gets a SystemError "fnctl failed: ..." and
\* no buffer; when it fails after a loop that ended in end of file or in a
\* read error, the handler gets that first error (EndOfFile with its count,
\* or the SystemError of the read) and the failure to restore is not
\* reported.
C13_RestoreFailureAfterSuccess ==
    \A r \in Req :
        (ValidRequest(r) /\ OwnDescriptor(r) /\ RestoreFailed(r)) =>
            IF count[r] = wsize[r]
            THEN Reported(r, "systemError", FcntlFailedMessage)
            ELSE \/ Reported(r, "endOfFile", EndOfStreamMessage(count[r]))
                 \/ Reported(r, "systemError", ReadFailedMessage("EIO"))

\* All N bytes were read, the restoration failed, and the handler was told.
C13_Witness ==
    \E r \in Req :
        /\ ValidRequest(r) /\ RestoreFailed(r)
        /\ count[r] = wsize[r]
        /\ calls[r][1].err.message = FcntlFailedMessage

(***************************************************************************)
(* The buffer.                                                             *)
(***************************************************************************)
\* C14: the block allocated for a request is never freed twice nor used
\* once freed; read(2) only ever stores into a live block; when the handler
\* has been notified of a failure the block, if malloc returned one, has
\* been freed, and when it has been notified of a success the block belongs
\* to the Buffer handed to the caller and was never freed.
C14_BufferFreedIffNotSuccess ==
    \A r \in Req :
        /\ heap[r] \notin {"double free", "dangling"}
        /\ InRead(r) => heap[r] = "live"
        /\ (ValidRequest(r) /\ pc[r] = "done") =>
                /\ Len(calls[r]) = 1
                /\ IF calls[r][1].err = NoError
                   THEN heap[r] = "buffer"
                   ELSE heap[r] \in {"freed", "none"}

\* A read failure followed by a failure to restore: the block was freed.
C14_Witness ==
    \E r \in Req :
        /\ ValidRequest(r) /\ RestoreFailed(r)
        /\ calls[r][1].err.message = ReadFailedMessage("EIO")
        /\ heap[r] = "freed"

(***************************************************************************)
(* The errors the handler receives.                                        *)
(***************************************************************************)
ErrorFlags == {"badStream", "endOfFile", "systemError"}
BadStreamMessages == {NotReadableMessage, MalformedMessage}
SystemErrorMessages ==
    {"malloc failed: " \o strerror("ENOMEM"), FcntlFailedMessage,
     ReadFailedMessage("EIO")}

\* C15: every error passed to the handler has one flag among badStream,
\* endOfFile and systemError, and a message; the flag is badStream exactly
\* when the socket passed is not readable or has no descriptor, endOfFile
\* only when the peer has closed and read(2) returned 0 before N bytes were
\* collected, the message then telling the count, and systemError exactly
\* when the message is that of a failed malloc, fcntl or read.
C15_OneFlagMatchingTheCause ==
    \A r \in Req : \A i \in 1..Len(calls[r]) :
        LET err == calls[r][i].err IN
        err # NoError =>
            /\ err.property \in ErrorFlags
            /\ err.message # NULL /\ err.message # ""
            /\ err.property = "badStream" <=>
                    (\/ ~SocketIsReadable(args[r].socket)
                     \/ GetFdFromSocket(args[r].socket) = -1)
            /\ err.property = "badStream" <=> err.message \in BadStreamMessages
            /\ err.property = "endOfFile" =>
                    /\ closed[wfd[r]] /\ count[r] < wsize[r]
                    /\ err.message = EndOfStreamMessage(count[r])
            /\ err.property = "systemError" <=>
                    err.message \in SystemErrorMessages

\* The handler has received a systemError for a failed malloc.
C15_Witness ==
    \E r \in Req :
        /\ pc[r] = "done"
        /\ Len(calls[r]) = 1
        /\ calls[r][1].err =
            ErrorWithProperty("systemError", "malloc failed: " \o strerror("ENOMEM"))

(***************************************************************************)
(* Requests running at the same time.                                      *)
(***************************************************************************)
\* C16, as stated: requests on distinct descriptors share no mutable state;
\* the error delivered for a request on a descriptor of its own is the one
\* its own worker met: a systemError comes with the message of a failed
\* malloc, fcntl or read, an endOfFile with the end-of-stream message that
\* tells how many bytes this request collected, whatever the other worker
\* does meanwhile.
C16_NoSharedMutableState ==
    \A r \in Req :
        (/\ ValidRequest(r) /\ OwnDescriptor(r)
         /\ pc[r] = "done"
         /\ calls[r][1].err # NoError)
        => LET err == calls[r][1].err IN
            /\ err.property = "systemError" => err.message \in SystemErrorMessages
            /\ err.property = "endOfFile" =>
                    err.message = EndOfStreamMessage(count[r])

(***************************************************************************)
(* The loop counter and the outcome.                                       *)
(***************************************************************************)
\* The bytes read(2) returned to r in this step.
Returned(r) == SubSeq(consumed'[r], Len(consumed[r]) + 1, Len(consumed'[r]))

\* C17: in every step, count stays within 0..requestedSize and does not
\* decrease; it changes only when a read(2) of the loop returns bytes, by
\* the number of bytes returned, at most requestedSize - count; these bytes
\* are stored at offset count, after the bytes already collected, so that
\* the block holds count bytes and none at or past index requestedSize.
C17_CountWithinBounds ==
    [][\A r \in Req :
        /\ 0 <= count'[r] /\ count'[r] <= wsize'[r]
        /\ count[r] <= count'[r]
        /\ count'[r] - count[r] = Len(Returned(r))
        /\ count'[r] # count[r] =>
                /\ InRead(r)
                /\ Len(Returned(r)) <= wsize[r] - count[r]
        /\ pc[r] \in InExecute =>
                /\ data'[r] = data[r] \o Returned(r)
                /\ Len(data'[r]) = count'[r]
                /\ Len(data'[r]) <= wsize[r]
      ]_vars

\* In the middle of the loop: some bytes collected, others still to come.
C17_Witness ==
    \E r \in Req :
        /\ pc[r] = "read"
        /\ 0 < count[r] /\ count[r] < wsize[r]
        /\ Len(data[r]) = count[r]

\* The outcome of r as the caller knows it: pending until the handler is
\* invoked.
Pending(r) == calls[r] = <<>>

\* C18: the outcome of a request changes once, from pending to a terminal
\* one, and never again; Success is delivered only when the loop was left
\* with count equal to requestedSize, and comes with a buffer of that many
\* bytes; EndOfFile only when the peer has closed and the loop was left with
\* count below requestedSize; SystemError only with the report of a failed
\* malloc, fcntl or read.
C18_OutcomeSetOnce ==
    [][\A r \in Req :
        /\ ~Pending(r) => calls'[r] = calls[r] /\ pc'[r] = pc[r]
        /\ (Pending(r) /\ ~Pending(r)' /\ ValidRequest(r)) =>
            /\ Len(calls'[r]) = 1
            /\ pc[r] = "complete" /\ pc'[r] = "done"
            /\ LET out == calls'[r][1] IN
                /\ out.err = NoError =>
                        /\ count[r] = wsize[r]
                        /\ errmsg[r] = NULL
                        /\ Len(out.buffer) = wsize[r]
                /\ out.err # NoError => out.err.property \in ErrorFlags
                /\ out.err.property = "endOfFile" =>
                        count[r] < wsize[r] /\ closed[wfd[r]]
                /\ out.err.property = "systemError" =>
                        out.err.message \in SystemErrorMessages
      ]_vars

\* A request for MaxSize bytes has ended in success, its peer having written
\* MaxMsg bytes.
C18_Witness ==
    \E r \in Req :
        /\ pc[r] = "done"
        /\ calls[r][1].err = NoError
        /\ count[r] = wsize[r] /\ wsize[r] = MaxSize
        /\ written[wfd[r]] = MaxMsg

(***************************************************************************)
(* The order of the steps of one request.                                  *)
(***************************************************************************)
\* How far the request at position p has gone: queued, setting the
\* descriptor blocking, in the loop, restoring the mode, waiting for the
\* main loop, notified.
Stage(p) ==
    CASE p \in {"idle", "unused", "thrown"} -> 0
      [] p = "queued" -> 1
      [] p \in {"SetBlocking", "SetBlocking_set", "seterr_malloc", "seterr_sb"} -> 2
      [] p \in {"read", "read_blocked", "seterr_rd"} -> 3
      [] p \in {"UnsetBlocking", "UnsetBlocking_set", "seterr_ub"} -> 4
      [] p = "complete" -> 5
      [] p = "done" -> 6
\* The loop of r has reached its outcome: all N bytes, or an error.
LoopOver(r) == count[r] = wsize[r] \/ errmsg[r] # NULL

\* C19: a request handed to a worker goes forward only, through set
\* blocking, the loop, unset blocking and the notification; read(2) is only
\* issued in the loop, on a descriptor in blocking mode; the mode is restored
\* only once the loop has reached its outcome; once the loop has been
\* entered the end of Execute() is only reached through UnsetBlocking(); and
\* the handler is only notified after Execute() has returned.
C19_StepsInOrder ==
    [][\A r \in Req : ValidRequest(r) =>
        /\ Stage(pc[r]) <= Stage(pc'[r])
        /\ Stage(pc'[r]) = 3 => Stage(pc[r]) \in {2, 3} /\ ~NonBlocking(Descriptor(r))'
        /\ (consumed'[r] # consumed[r] \/ readThread'[r] # readThread[r]) =>
                Stage(pc[r]) = 3 /\ ~NonBlocking(Descriptor(r))
        /\ (Stage(pc'[r]) = 4 /\ Stage(pc[r]) # 4) =>
                Stage(pc[r]) = 3 /\ LoopOver(r)'
        /\ (NonBlocking(Descriptor(r))' /\ ~NonBlocking(Descriptor(r))) =>
                pc[r] = "UnsetBlocking_set" /\ LoopOver(r) /\ Pending(r)
        /\ (Stage(pc'[r]) = 5 /\ Stage(pc[r]) # 5) =>
                Stage(pc[r]) = 4 \/ pc[r] \in {"seterr_malloc", "seterr_sb"}
        /\ (Pending(r) /\ ~Pending(r)') => pc[r] = "complete"
      ]_vars

\* The loop has ended in an error, the mode is about to be restored and the
\* handler has not been notified yet.
C19_Witness ==
    \E r \in Req :
        /\ pc[r] = "UnsetBlocking_set"
        /\ errmsg[r] # NULL
        /\ ~NonBlocking(wfd[r])
        /\ Pending(r)

(***************************************************************************)
(* Usage errors and run-time errors.                                       *)
(***************************************************************************)
\* The socket passed is not readable, or no descriptor can be got from it.
RuntimeProblem(v) == v.readable.t # "true" \/ NoDescriptor(v)

\* C20, as stated: a call whose size is not a positive integer or whose
\* handler is not callable, made on a socket that is not readable or has no
\* descriptor, raises the usage error and the handler is not invoked; a
\* BadStream is only reported when the three arguments are valid.
C20_UsageErrorsFirst ==
    \A r \in Req :
        (Called(r) /\ ThreeArgs(r) /\ SocketShaped(args[r].socket)) =>
            /\ (/\ ~PositiveInteger(args[r].size) \/ ~Callable(args[r].callback)
                /\ RuntimeProblem(args[r].socket))
               => /\ pc[r] = "thrown"
                  /\ thrown[r].message \in {BadSizeMessage, BadCallbackMessage}
                  /\ calls[r] = <<>>
            /\ (\E i \in 1..Len(calls[r]) : calls[r][i].err.property = "badStream")
               => PositiveInteger(args[r].size) /\ Callable(args[r].callback)

(***************************************************************************)
(* What the calls leave alone.                                             *)
(***************************************************************************)
\* read() has raised a usage error for r, or has reported a BadStream.
EndedInRead(r) ==
    \/ pc[r] = "thrown"
    \/ /\ pc[r] = "done"
       /\ calls[r] # <<>>
       /\ calls[r][1].err.property = "badStream"
\* No byte pending on a descriptor is taken away in this step: what was
\* pending still is, followed by what the peer writes.
NothingConsumed ==
    \A f \in Fds :
        /\ Len(pending'[f]) >= Len(pending[f])
        /\ SubSeq(pending'[f], 1, Len(pending[f])) = pending[f]

\* C21: in the step where read() raises a usage error or reports a
\* BadStream, and in every later step, no worker is queued or running, no
\* block has been allocated, no read(2) has been issued, the status flags of
\* every descriptor are unchanged and no pending byte is consumed.
C21_NothingTouchedWithoutWorker ==
    [][\A r \in Req :
        EndedInRead(r)' =>
            /\ queue' = <<>> /\ Running' = {}
            /\ heap'[r] = "none"
            /\ readThread'[r] = "none" /\ consumed'[r] = <<>>
            /\ flags' = flags
            /\ NothingConsumed
      ]_vars

\* A BadStream has been reported for a socket with a descriptor, whose peer
\* has written bytes that are all still pending.
C21_Witness ==
    \E r \in Req : \E f \in Fds :
        /\ EndedInRead(r) /\ pc[r] = "done"
        /\ heap[r] = "none"
        /\ written[f] > 0 /\ Len(pending[f]) = written[f]

\* The status flags of f other than the non-blocking one.
OtherFlags(f) == flags[f] \ {O_NONBLOCK}

\* C22: no step of any request changes a status flag of a descriptor other
\* than O_NONBLOCK: whatever F_SETFL writes, on any path, keeps every other
\* flag as it was.
C22_OnlyNonBlockingBitChanges ==
    [][\A f \in Fds : OtherFlags(f)' = OtherFlags(f)]_vars

\* A successful request has cleared and set again O_NONBLOCK, and the access
\* mode of the descriptor is what it was.
C22_Witness ==
    \E r \in Req :
        /\ pc[r] = "done"
        /\ calls[r][1].err = NoError
        /\ fd_was_non_blocking[r]
        /\ flags[wfd[r]] = {O_RDWR, O_NONBLOCK}

(***************************************************************************)
(* A failure of SetBlocking().                                             *)
(***************************************************************************)
\* SetBlocking() of r returns -1 in this step, from F_GETFL or from F_SETFL.
SetBlockingFails(r) ==
    pc[r] \in {"SetBlocking", "SetBlocking_set"} /\ pc'[r] = "seterr_sb"
\* SetBlocking() of r has failed: the worker is about to report it, or has
\* reported "fnctl failed" without having read the N bytes (a request alone
\* on its descriptor).
SetBlockingHasFailed(r) ==
    \/ pc[r] = "seterr_sb"
    \/ /\ pc[r] \in {"complete", "done"}
       /\ errmsg[r] = FcntlFailedMessage
       /\ count[r] < wsize[r]

\* C23: when F_GETFL or the F_SETFL that clears O_NONBLOCK fails, the request
\* ends with a SystemError "fnctl failed: ...": from the failure on, no
\* read(2) is issued and no byte consumed, the block is freed once, the
\* worker never enters the loop nor UnsetBlocking(), and the flags of the
\* descriptor are not written.
C23_SetBlockingFailureEndsRequest ==
    [][\A r \in Req : ValidRequest(r) =>
        /\ SetBlockingFails(r) =>
                /\ consumed[r] = <<>> /\ readThread[r] = "none"
                /\ flags' = flags
        /\ SetBlockingHasFailed(r) =>
                /\ SetBlockingHasFailed(r)'
                /\ flags' = flags
                /\ NothingConsumed
        /\ SetBlockingHasFailed(r)' =>
                /\ error_prop'[r] = "systemError"
                /\ consumed'[r] = <<>> /\ readThread'[r] = "none"
                /\ Stage(pc'[r]) \notin {3, 4}
                /\ heap'[r] = (IF pc'[r] = "seterr_sb" THEN "live" ELSE "freed")
                /\ pc'[r] = "done" =>
                        Reported(r, "systemError", FcntlFailedMessage)'
      ]_vars

\* The F_SETFL of SetBlocking() failed: the handler has been told, the block
\* is freed, nothing was read and the descriptor is still non-blocking.
C23_Witness ==
    \E r \in Req :
        /\ ValidRequest(r) /\ pc[r] = "done"
        /\ SetBlockingHasFailed(r)
        /\ fd_was_non_blocking[r] /\ NonBlocking(wfd[r])
        /\ heap[r] = "freed" /\ readThread[r] = "none"

(***************************************************************************)
(* Two requests on the same descriptor.                                    *)
(***************************************************************************)
\* The bytes of s are consecutive bytes of one stream.
Contiguous(s) ==
    \A i \in 1..(Len(s) - 1) : s[i + 1] = ByteAt(s[i][1], s[i][2] + 1)
\* The requests other than r whose worker runs or ran on the descriptor of
\* the worker of r.
Rivals(r) ==
    {o \in Req \ {r} : wfd[o] = wfd[r] /\ Stage(pc[o]) >= 2 /\ heap[o] # "none"}
Bytes(s) == {s[i] : i \in 1..Len(s)}

\* C24: nothing serializes the workers, which only interfere through a
\* shared descriptor: a worker only finds O_NONBLOCK set while in its loop
\* if another worker ran UnsetBlocking() on the same descriptor meanwhile,
\* and only collects bytes that are not a contiguous run of the stream if
\* another worker on the same descriptor consumed bytes too; no byte of the
\* stream is lost or handed to two requests.
C24_RaceOnSharedDescriptor ==
    \A r \in Req :
        /\ (InRead(r) /\ NonBlocking(wfd[r])) =>
                \E o \in Rivals(r) : fd_was_non_blocking[o] /\ Stage(pc[o]) >= 5
        /\ ~Contiguous(consumed[r]) =>
                \E o \in Rivals(r) : consumed[o] # <<>>
        /\ \A o \in Req \ {r} : Bytes(consumed[r]) \cap Bytes(consumed[o]) = {}
        /\ \A f \in Fds :
                Bytes(pending[f]) \cap Bytes(consumed[r]) = {}

\* Both races at once: request o collected the first and the third byte of
\* the stream and has set the descriptor non-blocking again, while request
\* r, which collected the second byte, is still in its loop.
C24_Witness ==
    \E r, o \in Req :
        /\ r # o /\ wfd[r] = wfd[o]
        /\ InRead(r) /\ NonBlocking(wfd[r])
        /\ consumed[r] # <<>>
        /\ pc[o] \in {"complete", "done"}
        /\ ~Contiguous(consumed[o])

(***************************************************************************)
(* The size, as a number.                                                  *)
(***************************************************************************)
\* The number of bytes v asks for is n (v a JavaScript number).
AsksFor(v, n) == ~v.neg /\ ~v.half /\ v.q = 0 /\ v.r = n

\* C25, as stated: every positive integer size is accepted, those at and
\* above 2^31 and 2^32 included, and for every numeric size accepted the
\* number of bytes read and the length of the Success buffer are the size
\* the caller supplied.
C25_SizeIsTheSizeSupplied ==
    \A r \in Req :
        (/\ Called(r) /\ ThreeArgs(r)
         /\ SocketShaped(args[r].socket)
         /\ IsNumber(args[r].size) /\ Callable(args[r].callback))
        => /\ PositiveInteger(args[r].size) => pc[r] # "thrown"
           /\ \A i \in 1..Len(calls[r]) :
                calls[r][i].err = NoError =>
                    /\ AsksFor(args[r].size, Len(calls[r][i].buffer))
                    /\ AsksFor(args[r].size, Len(consumed[r]))

(***************************************************************************)
(* The synchronous variant (src/src/cpp/posixread.cpp): Read() does        *)
(* everything on the main thread and returns the buffer or throws.         *)
(***************************************************************************)
Error(message) == [type |-> "Error", message |-> message]

\* Returns -1 if the first arg does not look like a net.Socket object, -2 if
\* the file descriptor is not valid, -3 if the stream is not readable, and
\* -4 after throwing "socket has no handle".
get_fd_from_socket(object) ==
    IF ~IsObject(object) THEN -1
    ELSE IF object.ctor # "Socket" THEN -1
    ELSE IF ~Has(object.readable) THEN -1
    ELSE IF ~IsBoolean(object.readable) \/ object.readable.t # "true" THEN -3
    ELSE IF ~Has(object._handle) THEN -4
    ELSE IF object._handle.t # "object" THEN -4
    ELSE IF object._handle.ctor # "TCP" THEN -4
    ELSE IF ~Has(object._handle.fd) THEN -2
    ELSE IF ~IsNumber(object._handle.fd) THEN -2
    ELSE IF ToInt32(object._handle.fd) < 0 THEN -2
    ELSE ToInt32(object._handle.fd)

\* What the synchronous Read() does with the arguments `a` before it touches
\* the descriptor: the exception it throws, or the descriptor and the size
\* it goes on with.
SyncThrow(exc) == Outcome(exc, <<>>, FALSE, 0, 0)
SyncReadOutcome(a) ==
    IF a.argc < 2
        THEN SyncThrow(TypeError("wrong number of arguments"))
    ELSE LET fd == get_fd_from_socket(a.socket) IN
    IF fd = -1
        THEN SyncThrow(TypeError("first argument should be a socket"))
    ELSE IF fd = -2
        THEN SyncThrow(Error("socket file descriptor is invalid"))
    ELSE IF fd = -3
        THEN SyncThrow(Error("socket is not readable"))
    ELSE IF fd < 0
        THEN SyncThrow(TypeError("socket has no handle"))
    ELSE IF ~IsNumber(a.size) \/ ToInt32(a.size) <= 0
        THEN SyncThrow(TypeError("second argument should be a positive integer"))
    ELSE Outcome(NoThrow, <<>>, TRUE, fd, ToInt32(a.size))

\* The checks of Read(), then buffer = Nan::NewBuffer(size).
SyncRead(r) ==
    /\ pc[r] = "idle"
    /\ LET o == SyncReadOutcome(args[r]) IN
        /\ thrown' = [thrown EXCEPT ![r] = o.exc]
        /\ wfd' = [wfd EXCEPT ![r] = o.fd]
        /\ wsize' = [wsize EXCEPT ![r] = o.size]
        /\ heap' = [heap EXCEPT ![r] = IF o.queued THEN "buffer" ELSE @]
        /\ pc' = [pc EXCEPT ![r] =
                    IF o.queued THEN "sync_SetBlocking" ELSE "thrown"]
    /\ UNCHANGED <<args, calls, queue, fd_was_non_blocking, opts, count, data,
                   error_prop, errmsg, msg, flags, pending, written, closed,
                   consumed, poolSize, readThread>>

SyncFrame ==
    UNCHANGED <<args, calls, queue, wfd, wsize, heap, error_prop, errmsg, msg,
                written, closed, poolSize>>

\* opts = fcntl(fd, F_GETFL); if (opts & O_NONBLOCK) { was_non_blocking =
\* true; opts &= ~O_NONBLOCK; ... }.  A failure ends the process:
\* perror(...); exit(EXIT_FAILURE).
SyncGetFlags(r) ==
    /\ pc[r] = "sync_SetBlocking"
    /\ \/ /\ fd_was_non_blocking' =
                [fd_was_non_blocking EXCEPT ![r] = O_NONBLOCK \in flags[wfd[r]]]
          /\ opts' = [opts EXCEPT ![r] =
                        IF O_NONBLOCK \in flags[wfd[r]]
                        THEN ClearNonBlock(flags[wfd[r]]) ELSE flags[wfd[r]]]
          /\ pc' = [pc EXCEPT ![r] =
                        IF O_NONBLOCK \in flags[wfd[r]]
                        THEN "sync_SetBlocking_set" ELSE "sync_read"]
       \/ /\ pc' = [pc EXCEPT ![r] = "exited"]
          /\ UNCHANGED <<fd_was_non_blocking, opts>>
    /\ UNCHANGED <<thrown, count, data, flags, pending, consumed, readThread>>
    /\ SyncFrame

\* fcntl(fd, F_SETFL, opts), O_NONBLOCK cleared.
SyncSetFlags(r) ==
    /\ pc[r] = "sync_SetBlocking_set"
    /\ \/ /\ flags' = [flags EXCEPT ![wfd[r]] = opts[r]]
          /\ pc' = [pc EXCEPT ![r] = "sync_read"]
       \/ /\ pc' = [pc EXCEPT ![r] = "exited"]
          /\ UNCHANGED flags
    /\ UNCHANGED <<thrown, fd_was_non_blocking, opts, count, data, pending,
                   consumed, readThread>>
    /\ SyncFrame

InSyncRead(r) == pc[r] \in {"sync_read", "sync_read_blocked"}
\* The test count < size of the do-while loop.
SyncLoopTest(c, size) == IF c < size THEN "sync_read" ELSE "sync_UnsetBlocking"

\* read(2) returns n > 0 bytes: count += n.
SyncReadData(r) ==
    /\ InSyncRead(r)
    /\ pending[wfd[r]] # <<>>
    /\ \E n \in 1..Min(Len(pending[wfd[r]]), ReadLength(wsize[r], count[r])) :
        LET avail == pending[wfd[r]]
            chunk == SubSeq(avail, 1, n)
        IN  /\ data' = [data EXCEPT ![r] = StoreAt(@, count[r], chunk)]
            /\ count' = [count EXCEPT ![r] = @ + n]
            /\ pending' = [pending EXCEPT ![wfd[r]] =
                                SubSeq(avail, n + 1, Len(avail))]
            /\ consumed' = [consumed EXCEPT ![r] = @ \o chunk]
            /\ pc' = [pc EXCEPT ![r] = SyncLoopTest(count[r] + n, wsize[r])]
    /\ readThread' = [readThread EXCEPT ![r] = MainThread]
    /\ UNCHANGED <<thrown, fd_was_non_blocking, opts, flags>>
    /\ SyncFrame

\* Nan::ThrowError(msg); return;
SyncThrowAndReturn(r, message) ==
    /\ thrown' = [thrown EXCEPT ![r] = Error(message)]
    /\ pc' = [pc EXCEPT ![r] = "thrown"]
    /\ readThread' = [readThread EXCEPT ![r] = MainThread]
    /\ UNCHANGED <<fd_was_non_blocking, opts, count, data, flags, pending,
                   consumed>>
    /\ SyncFrame

\* read(2) returns 0: "reached end of stream (read %lu bytes)" is thrown.
SyncReadEof(r) ==
    /\ InSyncRead(r)
    /\ pending[wfd[r]] = <<>> /\ closed[wfd[r]]
    /\ SyncThrowAndReturn(r, FmtEndOfStream(count[r]))

\* read(2) returns -1 with an errno other than EINTR and EAGAIN.
SyncReadError(r) ==
    /\ InSyncRead(r)
    /\ SyncThrowAndReturn(r, FmtErrno("read", "EIO"))

\* read(2) finds nothing to read on the open, blocking descriptor: the main
\* thread sleeps in the kernel.
SyncReadBlock(r) ==
    /\ pc[r] = "sync_read"
    /\ pending[wfd[r]] = <<>> /\ ~closed[wfd[r]]
    /\ O_NONBLOCK \notin flags[wfd[r]]
    /\ pc' = [pc EXCEPT ![r] = "sync_read_blocked"]
    /\ readThread' = [readThread EXCEPT ![r] = MainThread]
    /\ UNCHANGED <<thrown, fd_was_non_blocking, opts, count, data, flags,
                   pending, consumed>>
    /\ SyncFrame

\* read(2) returns -1 with errno == EINTR (or EAGAIN): continue.
SyncReadIntr(r) ==
    /\ InSyncRead(r)
    /\ pc' = [pc EXCEPT ![r] = SyncLoopTest(count[r], wsize[r])]
    /\ readThread' = [readThread EXCEPT ![r] = MainThread]
    /\ UNCHANGED <<thrown, fd_was_non_blocking, opts, count, data, flags,
                   pending, consumed>>
    /\ SyncFrame

\* if (was_non_blocking) { opts |= O_NONBLOCK; fcntl(fd, F_SETFL, opts) },
\* then info.GetReturnValue().Set(buffer).
SyncUnsetBlocking(r) ==
    /\ pc[r] = "sync_UnsetBlocking"
    /\ IF ~fd_was_non_blocking[r]
       THEN /\ pc' = [pc EXCEPT ![r] = "returned"]
            /\ UNCHANGED flags
       ELSE \/ /\ flags' = [flags EXCEPT ![wfd[r]] = SetNonBlock(opts[r])]
               /\ pc' = [pc EXCEPT ![r] = "returned"]
            \/ /\ pc' = [pc EXCEPT ![r] = "exited"]
               /\ UNCHANGED flags
    /\ UNCHANGED <<thrown, fd_was_non_blocking, opts, count, data, pending,
                   consumed, readThread>>
    /\ SyncFrame

SyncCall(r) ==
    \/ SyncRead(r)
    \/ SyncGetFlags(r)
    \/ SyncSetFlags(r)
    \/ SyncReadData(r)
    \/ SyncReadEof(r)
    \/ SyncReadError(r)
    \/ SyncReadBlock(r)
    \/ SyncReadIntr(r)
    \/ SyncUnsetBlocking(r)

\* One call of the synchronous Read(), with arguments of every shape, one
\* argument only included.
InitSync ==
    /\ \E a \in AllArguments
            \cup {Arguments(1, ConnectedSocket(0), JsAbsent, JsAbsent)} :
            args = [r \in Req |-> IF r = 1 THEN a
                                   ELSE Arguments(3, NewSocket, JsInt(1), JsFunction)]
    /\ pc = [r \in Req |-> IF r = 1 THEN "idle" ELSE "unused"]
    /\ poolSize = 1
    /\ flags \in [Fds -> FlagValues]
    /\ InitWorkers
    /\ InitKernel

NextSync ==
    \/ \E r \in Req : SyncCall(r)
    \/ \E f \in Connections : Peer(f)

SpecSync == InitSync /\ [][NextSync]_vars

\* C26, as stated: whenever the synchronous Read() returns, normally or by
\* throwing, a descriptor it found non-blocking is non-blocking again.
C26_SyncReadRestoresMode ==
    \A r \in Req :
        (pc[r] \in {"returned", "thrown"} /\ fd_was_non_blocking[r])
            => NonBlocking(wfd[r])

====
